---- MODULE Spec2Model ----
(***************************************************************************)
(* Model of the debit/credit HTTP API of src/app/index.js.  The file holds *)
(* two revisions of the handlers, both modelled here as routes over one    *)
(* PostgreSQL store:                                                       *)
(*   lb_get / lb_post : GET extrato and POST transacoes written with       *)
(*                      BEGIN, SELECT ... FOR UPDATE, UPDATE, INSERT,      *)
(*                      COMMIT (lines 46-177);                             *)
(*   sf_get / sf_post : the same routes calling the stored functions       *)
(*                      get_extrato and process_transaction (265-494).     *)
(* One action is one resumption of an async handler: the awaited query     *)
(* takes effect in the store and the handler runs on to its next await.    *)
(* The store follows PostgreSQL READ COMMITTED: writes of an open          *)
(* transaction are private until COMMIT, a row lock is held from the       *)
(* locking statement to the end of the transaction.                        *)
(***************************************************************************)
EXTENDS Integers, Sequences, FiniteSets, TLC

\* ---------------------------------------------------------------- bounds
\* requests admitted in one behaviour of Spec, SpecAny and SpecMix (quota)
MaxRequests == 2
\* largest valor a well-formed request carries
MaxValor == 1
\* store failures injected in one behaviour
MaxFaults == 1
\* connections of the pool (process.env.PG_MAX)
PG_MAX == 2
\* requests admitted in one behaviour of SpecLong
MaxLong == 12
\* requests admitted in one behaviour of SpecLive
MaxLive == 3
\* the width in bits the model gives the store's INT (32 in PostgreSQL), kept small so
\* that the requests at its edge are few
IntBits == 5

\* ------------------------------------------------------- program constants
\* ids accepted by the stored-function routes: id <= 5
MAX_ID == 5
\* longest descricao accepted
MAX_DESCRICAO == 10
\* rows a statement lists: LIMIT 10
EXTRATO_LIMIT == 10

\* the handler slots of Spec, SpecAny, SpecMix, SpecLong, SpecEdge and SpecStart
Handlers == 1 .. 2

\* the handler slots of SpecLive: one more than the pool has connections
HandlersLive == 1 .. PG_MAX + 1

\* -------------------------------------------------------------- JS values
\* A path parameter is text.  k = "int": the decimal integer hi * 2^32 + lo;
\* k = "frac": the decimal lo + 0.5 (lo >= 0); k = "nan": text that is no number.
RawId(k, hi, lo) == [k |-> k, hi |-> hi, lo |-> lo]

\* A JSON value of the body: an integer n, another number, a string s, or absent.
JInt(n) == [t |-> "int", n |-> n, s |-> ""]
JNum == [t |-> "num", n |-> 0, s |-> ""]
JStr(s) == [t |-> "str", n |-> 0, s |-> s]
JUndef == [t |-> "undef", n |-> 0, s |-> ""]

NoBody == [present |-> FALSE, valor |-> JUndef, tipo |-> JUndef, descricao |-> JUndef]
Body(v, t, d) == [present |-> TRUE, valor |-> v, tipo |-> t, descricao |-> d]

\* Number.isInteger(Number(params.id))
NumberIsInteger(id) == id.k = "int"

\* params.id | 0 : ToInt32 drops the fraction and the bits above 2^32; NaN gives 0
ToInt32(id) == IF id.k = "nan" THEN 0 ELSE id.lo

\* the account a query parameter equal to Number(params.id) selects, 0 if none can match
NumberKey(id) == IF id.k = "int" /\ id.hi = 0 THEN id.lo ELSE 0

\* ------------------------------------------------------------------ seed
\* accounts of the store: id |-> credit limit; balances start at 0 and the
\* ledger empty (the reset the test scripts run before a load test)
SeedLimit == [a \in {1, 2} |-> IF a = 1 THEN 1 ELSE 0]

SeedAccounts == [a \in DOMAIN SeedLimit |-> [account_limit |-> SeedLimit[a], balance |-> 0]]

\* --------------------------------------------------------------- inputs
IdsCore == {RawId("int", 0, n) : n \in 1 .. 3}

IdsWide == IdsCore \cup {RawId("int", 0, 0), RawId("int", 0, 0 - 1), RawId("int", 0, MAX_ID + 1),
                         RawId("int", 1, 1), RawId("frac", 0, 1), RawId("nan", 0, 0)}

BodiesCore == {Body(JInt(v), JStr(t), JStr("pix")) : v \in 1 .. MaxValor, t \in {"c", "d"}}

BodiesWide == {NoBody} \cup
    {Body(v, t, d) : v \in {JInt(0), JInt(1), JNum, JUndef},
                     t \in {JStr("c"), JStr("d"), JStr("x")},
                     d \in {JStr(""), JStr("pix"), JStr("abcdefghijk"), JInt(5)}}

VARIABLES revision, accounts, transactions, rowLock, busy, clock, faults, admitted, quota, req,
          boot

vars == <<revision, accounts, transactions, rowLock, busy, clock, faults, admitted, quota, req, boot>>

\* the handlers that can be in flight together
Req == DOMAIN req

NoWrite == [has |-> FALSE, v |-> 0]

\* start() before its first step: the stored-function revision prepares the store
\* first, the lock-based one goes straight to fastify.listen
BootStart(rev) ==
    [pc |-> IF rev = "sf" THEN "connect" ELSE "listen", client |-> FALSE,
     index |-> FALSE, get_extrato |-> FALSE, process_transaction |-> FALSE,
     listening |-> FALSE, failed |-> FALSE, code |-> 0]

\* start() after it ran to its end without an error: the server is listening
BootDone(rev) ==
    [BootStart(rev) EXCEPT !.pc = "listening", !.listening = TRUE,
                           !.index = (rev = "sf"), !.get_extrato = (rev = "sf"),
                           !.process_transaction = (rev = "sf")]

\* a handler slot with no request in it
IdleReq == [pc |-> "idle", route |-> "none", id |-> RawId("nan", 0, 0), body |-> NoBody,
            clientId |-> 0, account_limit |-> 0, balance |-> 0, new_balance |-> 0,
            client |-> FALSE, inTx |-> FALSE, txNow |-> 0, wBal |-> NoWrite, wIns |-> <<>>,
            status |-> 0, saldo |-> 0, limite |-> 0, ultimas |-> <<>>,
            touched |-> FALSE, sp |-> 0, failed |-> FALSE]

Init ==
    /\ revision \in {"lb", "sf"}
    /\ accounts = SeedAccounts
    /\ transactions = <<>>
    /\ rowLock = [a \in DOMAIN SeedAccounts |-> 0]
    /\ busy = 0
    /\ clock = 0
    /\ faults = 0
    /\ admitted = 0
    /\ quota = MaxRequests
    /\ req = [r \in Handlers |-> IdleReq]
    /\ boot = BootDone(revision)

\* the largest value of the store's INT
INT_MAX == 2 ^ (IntBits - 1) - 1

\* mutant of FitsInt: the store takes an integer of any size
FitsAlways(n) == TRUE

\* the store converts a parameter or a result to INT: out of range raises an error
FitsInt(n) == n >= 0 - INT_MAX - 1 /\ n <= INT_MAX

\* accounts.balance and transactions.amount are INTEGER columns
ColumnFits(n) == FitsInt(n)

\* ------------------------------------------------------------ validation
ValorOk(b) == b.valor.t = "int" /\ b.valor.n > 0

TipoOk(b) == b.tipo.t = "str" /\ b.tipo.s \in {"c", "d"}

DescricaoOk(b) == b.descricao.t = "str" /\ Len(b.descricao.s) >= 1
                  /\ Len(b.descricao.s) <= MAX_DESCRICAO

\* Number(params.id) > 0 and <= 5
IdInRange(id) == id.k = "int" /\ id.hi = 0 /\ id.lo > 0 /\ id.lo <= MAX_ID

\* the if of the lock-based POST: true when the request is answered 422
LbPostInvalid(id, b) ==
    \/ ~NumberIsInteger(id)
    \/ ~ValorOk(b)
    \/ ~TipoOk(b)
    \/ ~DescricaoOk(b)

\* the if of the stored-function POST: true when the request is answered 422
SfPostInvalid(id, b) ==
    \/ ~NumberIsInteger(id) \/ ~IdInRange(id)
    \/ ~ValorOk(b)
    \/ ~TipoOk(b)
    \/ ~DescricaoOk(b)

\* the if of the stored-function GET: true when the request is answered 404
SfGetInvalid(id) == ~NumberIsInteger(id) \/ ~IdInRange(id)

\* the if of the lock-based GET: Number.isInteger of a value that went through | 0
LbGetInvalid(id) == ~(ToInt32(id) \in Int)

\* ------------------------------------------------------------- the store
Exists(a) == a \in DOMAIN accounts

RECURSIVE RowsOf(_, _)
\* the committed rows of one account, oldest commit first
RowsOf(rows, a) ==
    IF rows = <<>> THEN <<>>
    ELSE IF Head(rows).account_id = a THEN <<Head(rows)>> \o RowsOf(Tail(rows), a)
    ELSE RowsOf(Tail(rows), a)

Signed(row) == IF row.type = "c" THEN row.amount ELSE 0 - row.amount

RECURSIVE SumSigned(_)
SumSigned(rows) == IF rows = <<>> THEN 0 ELSE Signed(Head(rows)) + SumSigned(Tail(rows))

\* rows of a result set, keyed by the column col, largest first, at most n of them
RECURSIVE TopBy(_, _, _)
TopBy(rows, col, n) ==
    IF n = 0 \/ rows = {} THEN <<>>
    ELSE LET top == CHOOSE x \in rows : \A y \in rows : y[col] <= x[col]
         IN  <<top>> \o TopBy(rows \ {top}, col, n - 1)

RowSet(rows) == {rows[i] : i \in DOMAIN rows}

\* the columns a statement shows of a row
Shown(row) == [amount |-> row.amount, type |-> row.type, description |-> row.description,
               created_at |-> row.created_at]

ShownAll(rows) == [i \in DOMAIN rows |-> Shown(rows[i])]

\* ----------------------------------------------------------- the handlers
\* Node runs one continuation at a time: a handler that has sent its reply returns
\* before any other continuation starts
Quiet == \A q \in Req : req[q].pc # "answered"

\* the free slot a new request is dispatched to
Vacant(r) ==
    /\ boot.listening
    /\ Quiet
    /\ admitted < quota
    /\ req[r].pc = "idle"
    /\ \A q \in Req : q < r => req[q].pc # "idle"

\* handler r is suspended at the await named at
At(r, at) == Quiet /\ req[r].pc = at

Put(r, rec) == req' = [req EXCEPT ![r] = rec]

\* the reply is sent and the finally block gives the connection back
Answered(rec, code) ==
    [rec EXCEPT !.pc = "answered", !.status = code, !.client = FALSE, !.inTx = FALSE,
                !.wBal = NoWrite, !.wIns = <<>>, !.balance = 0, !.new_balance = 0,
                !.account_limit = 0]

Returned(rec) == IF rec.client THEN busy - 1 ELSE busy

Unlocked(r) == [a \in DOMAIN rowLock |-> IF rowLock[a] = r THEN 0 ELSE rowLock[a]]

Fresh(route, id, b) == [IdleReq EXCEPT !.route = route, !.id = id, !.body = b]

\* POST /clientes/:id/transacoes, lock-based: from entry to pool.connect()
LbPostEnter(r, id, b) ==
    /\ revision = "lb"
    /\ Vacant(r)
    /\ LET rec == [Fresh("lb_post", id, b) EXCEPT !.clientId = NumberKey(id)]
       IN  IF ~b.present
           THEN \* destructuring undefined throws before any await: the reply is 500
                Put(r, Answered(rec, 500))
           ELSE IF LbPostInvalid(id, b)
           THEN Put(r, Answered(rec, 422))
           ELSE Put(r, [rec EXCEPT !.pc = "connect"])
    /\ admitted' = admitted + 1
    /\ UNCHANGED <<revision, accounts, transactions, rowLock, busy, clock, faults, quota, boot>>

\* pool.connect() hands out a connection when one is free
Connect(r) ==
    /\ At(r, "connect")
    /\ busy < PG_MAX
    /\ busy' = busy + 1
    /\ Put(r, [req[r] EXCEPT !.client = TRUE, !.touched = TRUE,
                             !.pc = IF req[r].route \in {"lb_get", "lb_post"} THEN "begin"
                                    ELSE "call"])
    /\ UNCHANGED <<revision, accounts, transactions, rowLock, clock, faults, admitted, quota, boot>>

\* client.query('BEGIN'): NOW() of the transaction is fixed here
LbBegin(r) ==
    /\ At(r, "begin")
    /\ Put(r, [req[r] EXCEPT !.inTx = TRUE, !.txNow = clock, !.pc = "select",
                             !.touched = TRUE])
    /\ clock' = IF req[r].route = "lb_post" THEN clock + 1 ELSE clock
    /\ UNCHANGED <<revision, accounts, transactions, rowLock, busy, faults, admitted, quota, boot>>

\* mutant of LbPostDecide: the limit test is missing
LbPostDecideNoCheck(rec, bal, lim) ==
    LET nb == IF rec.body.tipo.s = "c" THEN bal + rec.body.valor.n ELSE bal - rec.body.valor.n
    IN  [rec EXCEPT !.account_limit = lim, !.balance = bal, !.new_balance = nb, !.pc = "update"]

\* mutant of LbPostDecide: a debit that lands exactly on the limit is refused too
LbPostDecideStrict(rec, bal, lim) ==
    LET nb == IF rec.body.tipo.s = "c" THEN bal + rec.body.valor.n ELSE bal - rec.body.valor.n
    IN  [rec EXCEPT !.account_limit = lim, !.balance = bal, !.new_balance = nb,
                    !.pc = IF rec.body.tipo.s # "c" /\ nb <= 0 - lim THEN "rb422" ELSE "update"]

\* the branch after the locked read: credit, debit within the limit, or 'Limite excedido'
LbPostDecide(rec, bal, lim) ==
    LET nb == IF rec.body.tipo.s = "c" THEN bal + rec.body.valor.n ELSE bal - rec.body.valor.n
    IN  [rec EXCEPT !.account_limit = lim, !.balance = bal, !.new_balance = nb,
                    !.pc = IF rec.body.tipo.s # "c" /\ nb < 0 - lim THEN "rb422" ELSE "update"]

\* mutant of LbPostSelect: the read locks the whole accounts table
LbPostSelectTableLock(r) ==
    /\ At(r, "select")
    /\ req[r].route = "lb_post"
    /\ LET rec == [req[r] EXCEPT !.touched = TRUE]
           a == rec.clientId
       IN  /\ \A x \in DOMAIN rowLock : rowLock[x] = 0
           /\ IF ~Exists(a)
              THEN Put(r, [rec EXCEPT !.pc = "rb404"]) /\ UNCHANGED rowLock
              ELSE /\ rowLock' = [rowLock EXCEPT ![a] = r]
                   /\ Put(r, LbPostDecide([rec EXCEPT !.sp = Len(RowsOf(transactions, a))],
                                          accounts[a].balance, accounts[a].account_limit))
    /\ UNCHANGED <<revision, accounts, transactions, busy, clock, faults, admitted, quota, boot>>

\* mutant of LbPostSelect: the SELECT has no FOR UPDATE, so it neither waits nor locks
LbPostSelectNoLock(r) ==
    /\ At(r, "select")
    /\ req[r].route = "lb_post"
    /\ LET rec == [req[r] EXCEPT !.touched = TRUE]
           a == rec.clientId
       IN  IF ~Exists(a)
           THEN Put(r, [rec EXCEPT !.pc = "rb404"])
           ELSE Put(r, LbPostDecide([rec EXCEPT !.sp = Len(RowsOf(transactions, a))],
                                    accounts[a].balance, accounts[a].account_limit))
    /\ UNCHANGED <<revision, accounts, transactions, rowLock, busy, clock, faults, admitted, quota, boot>>

\* SELECT account_limit, balance FROM accounts WHERE id = $1 FOR UPDATE
LbPostSelect(r) ==
    /\ At(r, "select")
    /\ req[r].route = "lb_post"
    /\ LET rec == [req[r] EXCEPT !.touched = TRUE]
           a == rec.clientId
       IN  IF ~Exists(a)
           THEN /\ \/ Put(r, [rec EXCEPT !.pc = "rb404"])
                   \/ \* a parameter beyond 32 bits may also be refused by the store
                      /\ rec.id.hi # 0
                      /\ Put(r, [rec EXCEPT !.pc = "catch", !.failed = TRUE])
                /\ UNCHANGED rowLock
           ELSE /\ rowLock[a] = 0
                /\ rowLock' = [rowLock EXCEPT ![a] = r]
                /\ Put(r, LbPostDecide([rec EXCEPT !.sp = Len(RowsOf(transactions, a))],
                                       accounts[a].balance, accounts[a].account_limit))
    /\ UNCHANGED <<revision, accounts, transactions, busy, clock, faults, admitted, quota, boot>>

\* UPDATE accounts SET balance = $1 WHERE id = $2
LbPostUpdate(r) ==
    /\ At(r, "update")
    /\ IF ColumnFits(req[r].new_balance)
       THEN Put(r, [req[r] EXCEPT !.wBal = [has |-> TRUE, v |-> req[r].new_balance],
                                  !.pc = "insert", !.touched = TRUE])
       ELSE \* integer out of range: the query rejects
            Put(r, [req[r] EXCEPT !.pc = "catch", !.failed = TRUE, !.touched = TRUE])
    /\ UNCHANGED <<revision, accounts, transactions, rowLock, busy, clock, faults, admitted, quota, boot>>

\* the row INSERT INTO transactions ... VALUES ($1, $2, $3, NOW(), $4) adds
NewRow(a, valor, tipo, descricao, now, serial) ==
    [id |-> serial, account_id |-> a, amount |-> valor, type |-> tipo,
     description |-> descricao, created_at |-> now]

\* mutant of LbPostInsert: the INSERT adds the row twice
LbPostInsertTwice(r) ==
    /\ At(r, "insert")
    /\ LET row == NewRow(req[r].clientId, req[r].body.valor.n, req[r].body.tipo.s,
                         req[r].body.descricao.s, req[r].txNow, clock)
       IN  Put(r, [req[r] EXCEPT !.wIns = <<row, row>>, !.pc = "commit", !.touched = TRUE])
    /\ clock' = clock + 1
    /\ UNCHANGED <<revision, accounts, transactions, rowLock, busy, faults, admitted, quota, boot>>

\* mutant of LbPostInsert: the INSERT is sent on a second connection taken from the pool
LbPostInsertSecondConnection(r) ==
    /\ At(r, "insert")
    /\ busy < PG_MAX
    /\ Put(r, [req[r] EXCEPT !.wIns = <<NewRow(req[r].clientId, req[r].body.valor.n,
                                               req[r].body.tipo.s, req[r].body.descricao.s,
                                               req[r].txNow, clock)>>,
                             !.pc = "commit", !.touched = TRUE])
    /\ clock' = clock + 1
    /\ UNCHANGED <<revision, accounts, transactions, rowLock, busy, faults, admitted, quota, boot>>

LbPostInsert(r) ==
    /\ At(r, "insert")
    /\ IF ColumnFits(req[r].body.valor.n)
       THEN /\ Put(r, [req[r] EXCEPT !.wIns = <<NewRow(req[r].clientId, req[r].body.valor.n,
                                                       req[r].body.tipo.s,
                                                       req[r].body.descricao.s,
                                                       req[r].txNow, clock)>>,
                                     !.pc = "commit", !.touched = TRUE])
            /\ clock' = clock + 1
       ELSE \* integer out of range: the query rejects
            /\ Put(r, [req[r] EXCEPT !.pc = "catch", !.failed = TRUE, !.touched = TRUE])
            /\ clock' = clock
    /\ UNCHANGED <<revision, accounts, transactions, rowLock, busy, faults, admitted, quota, boot>>

\* mutant of CommitAccounts: the UPDATE has no WHERE and writes every account
CommitAccountsAll(rec) ==
    IF rec.wBal.has /\ Exists(rec.clientId)
    THEN [a \in DOMAIN accounts |-> [accounts[a] EXCEPT !.balance = rec.wBal.v]]
    ELSE accounts

\* what COMMIT makes visible: the pending balance and the pending rows
CommitAccounts(rec) ==
    IF rec.wBal.has /\ Exists(rec.clientId)
    THEN [accounts EXCEPT ![rec.clientId].balance = rec.wBal.v]
    ELSE accounts

CommitRows(rec) == transactions \o rec.wIns

\* mutant of LbPostCommit: the reply carries the balance that was read, not the new one
LbPostCommitStale(r) ==
    /\ At(r, "commit")
    /\ req[r].route = "lb_post"
    /\ accounts' = CommitAccounts(req[r])
    /\ transactions' = CommitRows(req[r])
    /\ rowLock' = Unlocked(r)
    /\ busy' = Returned(req[r])
    /\ Put(r, [Answered(req[r], 200) EXCEPT !.saldo = req[r].balance,
                                            !.limite = req[r].account_limit,
                                            !.touched = TRUE])
    /\ UNCHANGED <<revision, clock, faults, admitted, quota, boot>>

\* COMMIT, then reply 200 { limite, saldo } and release
LbPostCommit(r) ==
    /\ At(r, "commit")
    /\ req[r].route = "lb_post"
    /\ accounts' = CommitAccounts(req[r])
    /\ transactions' = CommitRows(req[r])
    /\ rowLock' = Unlocked(r)
    /\ busy' = Returned(req[r])
    /\ Put(r, [Answered(req[r], 200) EXCEPT !.saldo = req[r].new_balance,
                                            !.limite = req[r].account_limit,
                                            !.touched = TRUE])
    /\ UNCHANGED <<revision, clock, faults, admitted, quota, boot>>

\* ROLLBACK after an empty result, then reply 404 and release (both lock-based routes)
LbRollback404(r) ==
    /\ At(r, "rb404")
    /\ rowLock' = Unlocked(r)
    /\ busy' = Returned(req[r])
    /\ Put(r, [Answered(req[r], 404) EXCEPT !.touched = TRUE])
    /\ UNCHANGED <<revision, accounts, transactions, clock, faults, admitted, quota, boot>>

\* mutant of LbPostRollback422: 'Limite excedido' replies 422 and releases without ROLLBACK
LbPostReply422Open(r) ==
    /\ At(r, "rb422")
    /\ busy' = Returned(req[r])
    /\ Put(r, [Answered(req[r], 422) EXCEPT !.touched = TRUE])
    /\ UNCHANGED <<revision, accounts, transactions, rowLock, clock, faults, admitted, quota, boot>>

\* ROLLBACK after 'Limite excedido', then reply 422 and release
LbPostRollback422(r) ==
    /\ At(r, "rb422")
    /\ rowLock' = Unlocked(r)
    /\ busy' = Returned(req[r])
    /\ Put(r, [Answered(req[r], 422) EXCEPT !.touched = TRUE])
    /\ UNCHANGED <<revision, accounts, transactions, clock, faults, admitted, quota, boot>>

\* mutant of LbCatch: the catch block ends the transaction with COMMIT
LbCatchCommits(r) ==
    /\ At(r, "catch")
    /\ accounts' = CommitAccounts(req[r])
    /\ transactions' = CommitRows(req[r])
    /\ rowLock' = Unlocked(r)
    /\ busy' = Returned(req[r])
    /\ Put(r, [Answered(req[r], 500) EXCEPT !.touched = TRUE])
    /\ UNCHANGED <<revision, clock, faults, admitted, quota, boot>>

\* catch: ROLLBACK, reply 500, release (both lock-based routes)
LbCatch(r) ==
    /\ At(r, "catch")
    /\ rowLock' = Unlocked(r)
    /\ busy' = Returned(req[r])
    /\ Put(r, [Answered(req[r], 500) EXCEPT !.touched = TRUE])
    /\ UNCHANGED <<revision, accounts, transactions, clock, faults, admitted, quota, boot>>

\* GET /clientes/:id/extrato, lock-based: from entry to pool.connect()
LbGetEnter(r, id) ==
    /\ revision = "lb"
    /\ Vacant(r)
    /\ LET rec == [Fresh("lb_get", id, NoBody) EXCEPT !.clientId = ToInt32(id)]
       IN  IF LbGetInvalid(id)
           THEN Put(r, Answered(rec, 422))
           ELSE Put(r, [rec EXCEPT !.pc = "connect"])
    /\ admitted' = admitted + 1
    /\ UNCHANGED <<revision, accounts, transactions, rowLock, busy, clock, faults, quota, boot>>

\* mutant of LbGetSelectAccount: the SELECT sees the pending UPDATE of an open transaction
LbGetSelectAccountDirty(r) ==
    /\ At(r, "select")
    /\ req[r].route = "lb_get"
    /\ LET rec == [req[r] EXCEPT !.touched = TRUE]
           a == rec.clientId
           pending == {q \in Req : req[q].wBal.has /\ req[q].clientId = a}
       IN  IF ~Exists(a)
           THEN Put(r, [rec EXCEPT !.pc = "rb404"])
           ELSE Put(r, [rec EXCEPT !.account_limit = accounts[a].account_limit,
                                   !.balance = IF pending = {} THEN accounts[a].balance
                                               ELSE req[CHOOSE q \in pending : TRUE].wBal.v,
                                   !.sp = Len(RowsOf(transactions, a)),
                                   !.pc = "seltx"])
    /\ UNCHANGED <<revision, accounts, transactions, rowLock, busy, clock, faults, admitted, quota, boot>>

\* SELECT account_limit, balance FROM accounts WHERE id = $1
LbGetSelectAccount(r) ==
    /\ At(r, "select")
    /\ req[r].route = "lb_get"
    /\ LET rec == [req[r] EXCEPT !.touched = TRUE]
           a == rec.clientId
       IN  IF ~Exists(a)
           THEN Put(r, [rec EXCEPT !.pc = "rb404"])
           ELSE Put(r, [rec EXCEPT !.account_limit = accounts[a].account_limit,
                                   !.balance = accounts[a].balance,
                                   !.sp = Len(RowsOf(transactions, a)),
                                   !.pc = "seltx"])
    /\ UNCHANGED <<revision, accounts, transactions, rowLock, busy, clock, faults, admitted, quota, boot>>

\* SELECT ... FROM transactions WHERE account_id = $1 ORDER BY created_at DESC LIMIT 10
LastByCreatedAt(a) == ShownAll(TopBy(RowSet(RowsOf(transactions, a)), "created_at", EXTRATO_LIMIT))

LbGetSelectTransactions(r) ==
    /\ At(r, "seltx")
    /\ Put(r, [req[r] EXCEPT !.ultimas = LastByCreatedAt(req[r].clientId),
                             !.pc = "getcommit", !.touched = TRUE])
    /\ UNCHANGED <<revision, accounts, transactions, rowLock, busy, clock, faults, admitted, quota, boot>>

\* COMMIT, then reply 200 with the extrato and release
LbGetCommit(r) ==
    /\ At(r, "getcommit")
    /\ busy' = Returned(req[r])
    /\ Put(r, [Answered(req[r], 200) EXCEPT !.saldo = req[r].balance,
                                            !.limite = req[r].account_limit,
                                            !.touched = TRUE])
    /\ UNCHANGED <<revision, accounts, transactions, rowLock, clock, faults, admitted, quota, boot>>

\* GET /clientes/:id/extrato, stored function: from entry to pool.connect()
SfGetEnter(r, id) ==
    /\ revision = "sf"
    /\ Vacant(r)
    /\ LET rec == [Fresh("sf_get", id, NoBody) EXCEPT !.clientId = NumberKey(id)]
       IN  IF SfGetInvalid(id)
           THEN Put(r, Answered(rec, 404))
           ELSE Put(r, [rec EXCEPT !.pc = "connect"])
    /\ admitted' = admitted + 1
    /\ UNCHANGED <<revision, accounts, transactions, rowLock, busy, clock, faults, quota, boot>>

\* get_extrato, first statement: the account row; NULL makes the handler reply 404
SfGetAccount(r) ==
    /\ At(r, "call")
    /\ req[r].route = "sf_get"
    /\ LET rec == [req[r] EXCEPT !.touched = TRUE]
           a == rec.clientId
       IN  IF ~Exists(a)
           THEN /\ Put(r, Answered(rec, 404))
                /\ busy' = Returned(rec)
           ELSE /\ Put(r, [rec EXCEPT !.account_limit = accounts[a].account_limit,
                                      !.balance = accounts[a].balance,
                                      !.sp = Len(RowsOf(transactions, a)),
                                      !.pc = "call2"])
                /\ UNCHANGED busy
    /\ UNCHANGED <<revision, accounts, transactions, rowLock, clock, faults, admitted, quota, boot>>

\* ... FROM transactions WHERE account_id = p_account_id ORDER BY id DESC LIMIT 10
LastById(a) == ShownAll(TopBy(RowSet(RowsOf(transactions, a)), "id", EXTRATO_LIMIT))

\* get_extrato, second statement and RETURN; the handler replies 200 and releases
SfGetTransactions(r) ==
    /\ At(r, "call2")
    /\ busy' = Returned(req[r])
    /\ Put(r, [Answered(req[r], 200) EXCEPT !.saldo = req[r].balance,
                                            !.limite = req[r].account_limit,
                                            !.ultimas = LastById(req[r].clientId)])
    /\ UNCHANGED <<revision, accounts, transactions, rowLock, clock, faults, admitted, quota, boot>>

\* POST /clientes/:id/transacoes, stored function: from entry to pool.connect()
SfPostEnter(r, id, b) ==
    /\ revision = "sf"
    /\ Vacant(r)
    /\ LET rec == [Fresh("sf_post", id, b) EXCEPT !.clientId = NumberKey(id)]
       IN  IF SfPostInvalid(id, b)
           THEN Put(r, Answered(rec, 422))
           ELSE Put(r, [rec EXCEPT !.pc = "connect"])
    /\ admitted' = admitted + 1
    /\ UNCHANGED <<revision, accounts, transactions, rowLock, busy, clock, faults, quota, boot>>

\* mutant of SfQual: the WHERE tests the id alone
SfQualNoLimit(a, tipo, valor) == Exists(a)

\* mutant of SfQual: the WHERE refuses a debit that lands exactly on the limit
SfQualStrict(a, tipo, valor) ==
    /\ Exists(a)
    /\ (tipo = "c" \/ accounts[a].balance - valor > 0 - accounts[a].account_limit)

\* mutant of SfQual: the WHERE applies the limit test to credits as if they were debits
SfQualAsDebit(a, tipo, valor) ==
    /\ Exists(a)
    /\ accounts[a].balance - valor >= 0 - accounts[a].account_limit

\* the WHERE of process_transaction's UPDATE on the committed row
SfQual(a, tipo, valor) ==
    /\ Exists(a)
    /\ (tipo = "c" \/ accounts[a].balance - valor >= 0 - accounts[a].account_limit)

\* mutant of SfNewBalance: the amount is added whatever the type
SfNewBalanceAdds(a, tipo, valor) == accounts[a].balance + valor

\* SET balance = balance + CASE WHEN p_type = 'c' THEN p_amount ELSE -p_amount END
SfNewBalance(a, tipo, valor) ==
    accounts[a].balance + (IF tipo = "c" THEN valor ELSE 0 - valor)

\* process_transaction raises: p_amount INT does not hold the parameter, or
\* balance - p_amount or the new balance is out of range
SfRaises(a, tipo, valor) ==
    \/ ~FitsInt(valor)
    \/ /\ Exists(a)
       /\ tipo # "c"
       /\ ~FitsInt(accounts[a].balance - valor)
    \/ /\ SfQual(a, tipo, valor)
       /\ ~ColumnFits(SfNewBalance(a, tipo, valor))

\* SELECT process_transaction($1, $2, $3, $4): one statement, committed as it ends.
\* A row that fails the WHERE is skipped; a row that passes it is locked first, so the
\* statement waits while another transaction holds the row.
SfPostCall(r) ==
    /\ At(r, "call")
    /\ req[r].route = "sf_post"
    /\ LET a == req[r].clientId
           tipo == req[r].body.tipo.s
           valor == req[r].body.valor.n
           rec == [req[r] EXCEPT !.touched = TRUE,
                                 !.sp = Len(RowsOf(transactions, a))]
       IN  IF SfRaises(a, tipo, valor)
           THEN \* the statement is aborted and the query rejects: catch replies 500
                /\ Put(r, [Answered(rec, 500) EXCEPT !.failed = TRUE])
                /\ UNCHANGED <<accounts, transactions, clock>>
           ELSE IF SfQual(a, tipo, valor)
           THEN /\ rowLock[a] = 0
                /\ accounts' = [accounts EXCEPT ![a].balance = SfNewBalance(a, tipo, valor)]
                /\ transactions' = Append(transactions,
                        NewRow(a, valor, tipo, req[r].body.descricao.s, clock, clock + 1))
                /\ clock' = clock + 2
                /\ Put(r, [Answered(rec, 200) EXCEPT
                                !.saldo = SfNewBalance(a, tipo, valor),
                                !.limite = accounts[a].account_limit])
           ELSE \* response.error: account missing or debit over the limit
                /\ Put(r, Answered(rec, 422))
                /\ UNCHANGED <<accounts, transactions, clock>>
    /\ busy' = Returned(req[r])
    /\ UNCHANGED <<revision, rowLock, faults, admitted, quota, boot>>

\* ------------------------------------------------------------- failures
LbQueryPcs == {"begin", "select", "seltx", "update", "insert", "commit", "getcommit",
               "rb404", "rb422"}

\* mutant of LbQueryFails: the handler starts its transaction again after a failure
LbQueryFailsRetries(r) ==
    /\ Quiet /\ req[r].pc \in LbQueryPcs
    /\ faults < MaxFaults
    /\ faults' = faults + 1
    /\ Put(r, [req[r] EXCEPT !.pc = "begin", !.failed = TRUE, !.touched = TRUE])
    /\ UNCHANGED <<revision, accounts, transactions, rowLock, busy, clock, admitted, quota, boot>>

\* a query of a lock-based handler rejects: control goes to the catch block.  The
\* transaction stays open (and keeps its lock) until the ROLLBACK of the catch.
LbQueryFails(r) ==
    /\ Quiet /\ req[r].pc \in LbQueryPcs
    /\ faults < MaxFaults
    /\ faults' = faults + 1
    /\ Put(r, [req[r] EXCEPT !.pc = "catch", !.failed = TRUE, !.touched = TRUE])
    /\ UNCHANGED <<revision, accounts, transactions, rowLock, busy, clock, admitted, quota, boot>>

\* mutant of LbCatchFails: the exception leaves the handler without client.release()
LbCatchFailsLeaks(r) ==
    /\ At(r, "catch")
    /\ rowLock' = Unlocked(r)
    /\ Put(r, [Answered(req[r], 500) EXCEPT !.touched = TRUE])
    /\ UNCHANGED <<revision, accounts, transactions, busy, clock, faults, admitted, quota, boot>>

\* the ROLLBACK of the catch rejects too: the exception leaves the handler, finally
\* releases the connection and Fastify replies 500; the store ends the session's
\* transaction, which drops its writes and its lock.
LbCatchFails(r) ==
    /\ At(r, "catch")
    /\ rowLock' = Unlocked(r)
    /\ busy' = Returned(req[r])
    /\ Put(r, [Answered(req[r], 500) EXCEPT !.touched = TRUE])
    /\ UNCHANGED <<revision, accounts, transactions, clock, faults, admitted, quota, boot>>

\* the query of a stored-function handler rejects: nothing of the statement is kept;
\* catch replies 500 and finally releases
SfQueryFails(r) ==
    /\ Quiet /\ req[r].pc \in {"call", "call2"}
    /\ faults < MaxFaults
    /\ faults' = faults + 1
    /\ busy' = Returned(req[r])
    /\ Put(r, [Answered(req[r], 500) EXCEPT !.failed = TRUE, !.touched = TRUE])
    /\ UNCHANGED <<revision, accounts, transactions, rowLock, clock, admitted, quota, boot>>

\* pool.connect() rejects: no connection was borrowed, the reply is 500
ConnectFails(r) ==
    /\ At(r, "connect")
    /\ faults < MaxFaults
    /\ faults' = faults + 1
    /\ Put(r, [Answered(req[r], 500) EXCEPT !.failed = TRUE])
    /\ UNCHANGED <<revision, accounts, transactions, rowLock, busy, clock, admitted, quota, boot>>

\* the handler that replied has returned; its slot is free again
Return(r) ==
    /\ req[r].pc = "answered"
    /\ Put(r, IdleReq)
    /\ UNCHANGED <<revision, accounts, transactions, rowLock, busy, clock, faults, admitted, quota, boot>>

\* --------------------------------------------------------- specifications
\* the steps of the POST handlers after entry
StepPost(r) ==
    \/ Connect(r)
    \/ LbBegin(r)
    \/ LbPostSelect(r)
    \/ LbPostUpdate(r)
    \/ LbPostInsert(r)
    \/ LbPostCommit(r)
    \/ LbRollback404(r)
    \/ LbPostRollback422(r)
    \/ LbCatch(r)
    \/ SfPostCall(r)
    \/ Return(r)

\* the steps only the GET handlers take
StepGet(r) ==
    \/ LbGetSelectAccount(r)
    \/ LbGetSelectTransactions(r)
    \/ LbGetCommit(r)
    \/ SfGetAccount(r)
    \/ SfGetTransactions(r)

\* the store or the pool failing under a handler
StepFail(r) ==
    \/ LbQueryFails(r)
    \/ LbCatchFails(r)
    \/ SfQueryFails(r)
    \/ ConnectFails(r)

\* well-formed POST requests, two in flight at a time, over a store that may fail
Next ==
    \E r \in Req :
        \/ \E id \in IdsCore, b \in BodiesCore : LbPostEnter(r, id, b)
        \/ \E id \in IdsCore, b \in BodiesCore : SfPostEnter(r, id, b)
        \/ StepPost(r)
        \/ StepFail(r)

Spec == Init /\ [][Next]_vars

\* arbitrary requests to both routes, well-formed or not, one after the other
NextAny ==
    \/ \E id \in IdsWide, b \in BodiesWide : LbPostEnter(1, id, b)
    \/ \E id \in IdsWide, b \in BodiesWide : SfPostEnter(1, id, b)
    \/ \E id \in IdsWide : LbGetEnter(1, id)
    \/ \E id \in IdsWide : SfGetEnter(1, id)
    \/ StepPost(1)
    \/ StepGet(1)
    \/ StepFail(1)

SpecAny == Init /\ [][NextAny]_vars

\* credits and debits of one amount, the largest: SpecMix varies the routes and the
\* interleavings, Spec the amounts
BodiesMix == {Body(JInt(MaxValor), JStr(t), JStr("pix")) : t \in {"c", "d"}}

\* GET and POST requests in flight together, over a store that may fail
NextMix ==
    \E r \in Req :
        \/ \E id \in IdsCore, b \in BodiesMix : LbPostEnter(r, id, b)
        \/ \E id \in IdsCore, b \in BodiesMix : SfPostEnter(r, id, b)
        \/ \E id \in IdsCore : LbGetEnter(r, id)
        \/ \E id \in IdsCore : SfGetEnter(r, id)
        \/ StepPost(r)
        \/ StepGet(r)
        \/ StepFail(r)

SpecMix == Init /\ [][NextMix]_vars

\* a long behaviour: no store failure to come, MaxLong requests
InitLong ==
    /\ revision \in {"lb", "sf"}
    /\ accounts = SeedAccounts
    /\ transactions = <<>>
    /\ rowLock = [a \in DOMAIN SeedAccounts |-> 0]
    /\ busy = 0
    /\ clock = 0
    /\ faults = MaxFaults
    /\ admitted = 0
    /\ quota = MaxLong
    /\ req = [r \in Handlers |-> IdleReq]
    /\ boot = BootDone(revision)

IdsLong == {RawId("int", 0, n) : n \in 1 .. 2}

BodiesLong == {Body(JInt(1), JStr("c"), JStr("pix"))}

\* the first transaction of the behaviour, begun and not yet at its locking read
Overtakable(q) == req[q].route = "lb_post" /\ req[q].pc = "select" /\ req[q].txNow = 0

\* the arrivals SpecLong explores: a request arrives when no other is in flight, or
\* while the first transaction is still waiting to issue its locking read
ArrivesLong == \A q \in Req : req[q].pc = "idle" \/ Overtakable(q)

\* the accounts a credit may arrive for: account 1, and any account not yet credited
CreditedLong == {id \in IdsLong : id.lo = 1 \/ RowsOf(transactions, id.lo) = <<>>}

\* credits and statements on existing accounts over a long ledger
NextLong ==
    \E r \in Req :
        \/ \E id \in CreditedLong, b \in BodiesLong : ArrivesLong /\ LbPostEnter(r, id, b)
        \/ \E id \in CreditedLong, b \in BodiesLong : ArrivesLong /\ SfPostEnter(r, id, b)
        \/ \E id \in IdsLong : ArrivesLong /\ LbGetEnter(r, id)
        \/ \E id \in IdsLong : ArrivesLong /\ SfGetEnter(r, id)
        \/ Connect(r)
        \/ LbBegin(r)
        \/ LbPostSelect(r)
        \/ LbPostUpdate(r)
        \/ LbPostInsert(r)
        \/ LbPostCommit(r)
        \/ SfPostCall(r)
        \/ LbGetSelectAccount(r)
        \/ LbGetSelectTransactions(r)
        \/ LbGetCommit(r)
        \/ SfGetAccount(r)
        \/ SfGetTransactions(r)
        \/ Return(r)

SpecLong == InitLong /\ [][NextLong]_vars

\* amounts at the edge of the store's INT
BodiesEdge == {Body(JInt(v), JStr(t), JStr("pix")) : v \in {1, INT_MAX, INT_MAX + 1},
                                                    t \in {"c", "d"}}

\* POST requests with amounts at the edge of INT, one after the other
NextEdge ==
    \/ \E id \in IdsCore, b \in BodiesEdge : LbPostEnter(1, id, b)
    \/ \E id \in IdsCore, b \in BodiesEdge : SfPostEnter(1, id, b)
    \/ StepPost(1)
    \/ StepFail(1)

SpecEdge == Init /\ [][NextEdge]_vars

\* one request more in flight than the pool has connections, and a store that answers
\* every query
InitLive ==
    /\ revision \in {"lb", "sf"}
    /\ accounts = SeedAccounts
    /\ transactions = <<>>
    /\ rowLock = [a \in DOMAIN SeedAccounts |-> 0]
    /\ busy = 0
    /\ clock = 0
    /\ faults = MaxFaults
    /\ admitted = 0
    /\ quota = MaxLive
    /\ req = [r \in HandlersLive |-> IdleReq]
    /\ boot = BootDone(revision)

\* debits of 1: accepted once on account 1, refused for the limit everywhere else
BodiesLive == {Body(JInt(1), JStr("d"), JStr("pix"))}

\* the steps handler r takes on its own once its request is in
StepLive(r) ==
    \/ Connect(r)
    \/ LbBegin(r)
    \/ LbPostSelect(r)
    \/ LbPostUpdate(r)
    \/ LbPostInsert(r)
    \/ LbPostCommit(r)
    \/ LbPostRollback422(r)
    \/ SfPostCall(r)
    \/ LbGetSelectAccount(r)
    \/ LbGetSelectTransactions(r)
    \/ LbGetCommit(r)
    \/ SfGetAccount(r)
    \/ SfGetTransactions(r)
    \/ Return(r)

NextLive ==
    \E r \in Req :
        \/ \E id \in IdsLong, b \in BodiesLive : LbPostEnter(r, id, b)
        \/ \E id \in IdsLong, b \in BodiesLive : SfPostEnter(r, id, b)
        \/ \E id \in IdsLong : LbGetEnter(r, id)
        \/ \E id \in IdsLong : SfGetEnter(r, id)
        \/ StepLive(r)

\* the event loop resumes every handler whose await has settled, and the store and the
\* pool settle every await they can
SpecLive == InitLive /\ [][NextLive]_vars /\ \A r \in HandlersLive : WF_vars(StepLive(r))

\* ---------------------------------------------------------------- startup
\* const client = await pool.connect()
StartConnect ==
    /\ boot.pc = "connect"
    /\ busy < PG_MAX
    /\ busy' = busy + 1
    /\ boot' = [boot EXCEPT !.client = TRUE, !.pc = "index"]
    /\ UNCHANGED <<revision, accounts, transactions, rowLock, clock, faults, admitted, quota, req>>

\* await client.query(CREATE_INDEX_SQL)
StartCreateIndex ==
    /\ boot.pc = "index"
    /\ boot' = [boot EXCEPT !.index = TRUE, !.pc = "get_extrato"]
    /\ UNCHANGED <<revision, accounts, transactions, rowLock, busy, clock, faults, admitted, quota, req>>

\* await client.query(CREATE_EXTRACT_FUNCTION_SQL)
StartCreateExtract ==
    /\ boot.pc = "get_extrato"
    /\ boot' = [boot EXCEPT !.get_extrato = TRUE, !.pc = "process_transaction"]
    /\ UNCHANGED <<revision, accounts, transactions, rowLock, busy, clock, faults, admitted, quota, req>>

\* await client.query(CREATE_TRANSACTION_FUNCTION_SQL); client.release(); then the
\* call of fastify.listen
StartCreateTransaction ==
    /\ boot.pc = "process_transaction"
    /\ busy' = busy - 1
    /\ boot' = [boot EXCEPT !.process_transaction = TRUE, !.client = FALSE, !.pc = "listen"]
    /\ UNCHANGED <<revision, accounts, transactions, rowLock, clock, faults, admitted, quota, req>>

\* await fastify.listen({ port, host }) resolves: requests are accepted from here on
StartListen ==
    /\ boot.pc = "listen"
    /\ boot' = [boot EXCEPT !.listening = TRUE, !.pc = "listening"]
    /\ UNCHANGED <<revision, accounts, transactions, rowLock, busy, clock, faults, admitted, quota, req>>

\* the awaits of start()
StartPcs == {"connect", "index", "get_extrato", "process_transaction", "listen"}

\* mutant of StartFails: the catch logs the error and start() goes on to listen
StartFailsGoesOn ==
    /\ boot.pc \in StartPcs
    /\ faults < MaxFaults
    /\ faults' = faults + 1
    /\ boot' = [boot EXCEPT !.failed = TRUE, !.pc = "listen"]
    /\ UNCHANGED <<revision, accounts, transactions, rowLock, busy, clock, admitted, quota, req>>

\* an await of start() rejects: catch, console.error, process.exit(1)
StartFails ==
    /\ boot.pc \in StartPcs
    /\ faults < MaxFaults
    /\ faults' = faults + 1
    /\ boot' = [boot EXCEPT !.failed = TRUE, !.pc = "exited", !.code = 1]
    /\ UNCHANGED <<revision, accounts, transactions, rowLock, busy, clock, admitted, quota, req>>

\* the process from its start: start() first, then the requests of NextMix
InitStart ==
    /\ revision \in {"lb", "sf"}
    /\ accounts = SeedAccounts
    /\ transactions = <<>>
    /\ rowLock = [a \in DOMAIN SeedAccounts |-> 0]
    /\ busy = 0
    /\ clock = 0
    /\ faults = 0
    /\ admitted = 0
    /\ quota = MaxRequests
    /\ req = [r \in Handlers |-> IdleReq]
    /\ boot = BootStart(revision)

NextStart ==
    \/ StartConnect
    \/ StartCreateIndex
    \/ StartCreateExtract
    \/ StartCreateTransaction
    \/ StartListen
    \/ StartFails
    \/ NextMix

SpecStart == InitStart /\ [][NextStart]_vars

\* ------------------------------------------------------------- the claims
PostRoutes == {"lb_post", "sf_post"}

GetRoutes == {"lb_get", "sf_get"}

\* handler r has just sent its reply
Replied(r) == req[r].pc = "answered"

\* the committed ledger of account a and its balance after the first k rows
Ledger(a) == RowsOf(transactions, a)

BalanceAt(a, k) == SumSigned(SubSeq(Ledger(a), 1, k))

ReqValor(r) == req[r].body.valor.n

ReqTipo(r) == req[r].body.tipo.s

ReqDelta(r) == IF ReqTipo(r) = "c" THEN ReqValor(r) ELSE 0 - ReqValor(r)

\* a POST that went through the processor on an existing account with no store failure
Processed(r) ==
    /\ Replied(r)
    /\ req[r].route \in PostRoutes
    /\ req[r].touched
    /\ ~req[r].failed
    /\ Exists(req[r].clientId)

\* the row the request of r asks for
OwnRow(r, row) ==
    /\ row.account_id = req[r].clientId
    /\ row.amount = ReqValor(r)
    /\ row.type = ReqTipo(r)
    /\ row.description = req[r].body.descricao.s

\* C1: in every committed state every account has balance >= -credit_limit.
C1_LimitKept == \A a \in DOMAIN accounts : accounts[a].balance >= 0 - accounts[a].account_limit

\* C1 witness: an account sits exactly on its limit and a further debit on it was refused
C1_Witness ==
    \E r \in Req :
        /\ Processed(r) /\ req[r].status = 422
        /\ accounts[req[r].clientId].account_limit > 0
        /\ accounts[req[r].clientId].balance = 0 - accounts[req[r].clientId].account_limit

\* C2: starting from balance 0 and an empty ledger, every account's committed balance is
\* the sum of its credit rows minus the sum of its debit rows.
C2_BalanceIsLedgerSum == \A a \in DOMAIN accounts : accounts[a].balance = SumSigned(Ledger(a))

\* C2 witness: an account with a credit row and a debit row
C2_Witness ==
    \E a \in DOMAIN accounts :
        /\ \E i \in DOMAIN Ledger(a) : Ledger(a)[i].type = "c"
        /\ \E i \in DOMAIN Ledger(a) : Ledger(a)[i].type = "d"

\* C3: the outcome of concurrent debits is that of a serial execution in commit order:
\* an accepted request committed right after the state it read and fits the limit there,
\* a refused one is a debit that does not fit the state it read, and the balance is the
\* initial 0 plus the accepted amounts.
C3_SerialOutcome ==
    \A r \in Req : Processed(r) =>
        LET a == req[r].clientId
            before == BalanceAt(a, req[r].sp)
        IN  /\ req[r].status \in {200, 422}
            /\ req[r].status = 200 =>
                  /\ Len(Ledger(a)) = req[r].sp + 1
                  /\ OwnRow(r, Ledger(a)[req[r].sp + 1])
                  /\ before + ReqDelta(r) >= 0 - accounts[a].account_limit
            /\ req[r].status = 422 =>
                  /\ ReqTipo(r) = "d"
                  /\ before - ReqValor(r) < 0 - accounts[a].account_limit
            /\ accounts[a].balance = BalanceAt(a, Len(Ledger(a)))

\* C3 witness: a debit that fits the limit on its own is refused because a debit that
\* was inserted after this one began its transaction committed first
C3_Witness ==
    \E r \in Req :
        /\ Processed(r) /\ req[r].status = 422 /\ req[r].route = "lb_post"
        /\ ReqValor(r) <= accounts[req[r].clientId].account_limit
        /\ \E i \in DOMAIN Ledger(req[r].clientId) :
              /\ Ledger(req[r].clientId)[i].type = "d"
              /\ Ledger(req[r].clientId)[i].id > req[r].txNow

\* the committed store changes only by one row together with its own balance change
UnitStep ==
    /\ Len(transactions') <= Len(transactions) + 1
    /\ SubSeq(transactions', 1, Len(transactions)) = transactions
    /\ DOMAIN accounts' = DOMAIN accounts
    /\ \A a \in DOMAIN accounts :
          accounts'[a].balance # accounts[a].balance =>
              /\ Len(transactions') = Len(transactions) + 1
              /\ transactions'[Len(transactions')].account_id = a
              /\ accounts'[a].balance - accounts[a].balance
                    = Signed(transactions'[Len(transactions')])
    /\ Len(transactions') = Len(transactions) + 1 =>
          LET row == transactions'[Len(transactions')]
          IN  /\ Exists(row.account_id)
              /\ accounts'[row.account_id].balance - accounts[row.account_id].balance
                    = Signed(row)

\* C4: the balance update and the ledger insertion are one unit: no step, a failing
\* query or a failing ROLLBACK included, changes a committed balance without adding
\* exactly the matching row, or adds a row without that balance change.
C4_AtomicUnit == [][UnitStep]_vars

\* C4 witness: the store failed between the UPDATE and the INSERT of a transaction
C4_Witness ==
    \E r \in Req :
        /\ req[r].pc = "catch" /\ req[r].failed
        /\ req[r].wBal.has /\ req[r].wIns = <<>>
        /\ accounts[req[r].clientId].balance # req[r].wBal.v

\* C5: a debit that would take the balance below -credit_limit is answered 422 and the
\* account's balance and ledger are as the request found them.
C5_RefusedDebit ==
    \A r \in Req :
        (/\ Processed(r)
         /\ ReqTipo(r) = "d"
         /\ BalanceAt(req[r].clientId, req[r].sp) - ReqValor(r)
               < 0 - accounts[req[r].clientId].account_limit)
        => /\ req[r].status = 422
           /\ Len(Ledger(req[r].clientId)) = req[r].sp
           /\ accounts[req[r].clientId].balance = BalanceAt(req[r].clientId, req[r].sp)

\* C5 witness: a second request in a row is refused and the store is still as seeded
C5_Witness ==
    \E r \in Req :
        /\ Processed(r) /\ req[r].status = 422 /\ ReqTipo(r) = "d"
        /\ admitted = 2 /\ faults = 0
        /\ transactions = <<>> /\ accounts = SeedAccounts

\* a body that passes the four payload checks the specification lists
PayloadOk(b) ==
    /\ b.present
    /\ b.valor.t = "int" /\ b.valor.n > 0
    /\ b.tipo.t = "str" /\ (b.tipo.s = "c" \/ b.tipo.s = "d")
    /\ b.descricao.t = "str" /\ Len(b.descricao.s) \in 1 .. 10

\* the id names an integer for which the store holds no account
UnknownAccount(id) == id.k = "int" /\ ~(id.hi = 0 /\ id.lo \in DOMAIN accounts)

\* C6: a POST with a valid payload and an id of no account is answered 404.
C6_UnknownPostIs404 ==
    \A r \in Req :
        (/\ Replied(r) /\ req[r].route \in PostRoutes
         /\ PayloadOk(req[r].body) /\ UnknownAccount(req[r].id) /\ ~req[r].failed)
        => req[r].status = 404

\* C7: a GET for an id of no account is answered 404 and never 200.
C7_UnknownGetIs404 ==
    \A r \in Req :
        (Replied(r) /\ req[r].route \in GetRoutes /\ UnknownAccount(req[r].id))
        => /\ req[r].status # 200
           /\ ~req[r].failed => req[r].status = 404

\* C8: a POST answered 200 returns the balance right after its own update, the previous
\* committed balance plus or minus valor, with every earlier committed transaction in it
\* and no later one, and the account's credit limit.
C8_ReplyIsOwnBalance ==
    \A r \in Req :
        (Replied(r) /\ req[r].route \in PostRoutes /\ req[r].status = 200) =>
            LET a == req[r].clientId
                n == Len(Ledger(a))
            IN  /\ Exists(a)
                /\ n >= 1
                /\ OwnRow(r, Ledger(a)[n])
                /\ req[r].saldo = BalanceAt(a, n - 1) + ReqDelta(r)
                /\ req[r].saldo = accounts[a].balance
                /\ req[r].limite = accounts[a].account_limit

\* C8 witness: a 200 whose transaction began before an earlier row of the account was
\* inserted, so its reply has to include a transaction that ran concurrently
C8_Witness ==
    \E r \in Req :
        /\ Replied(r) /\ req[r].route = "lb_post" /\ req[r].status = 200
        /\ Len(Ledger(req[r].clientId)) = 2
        /\ Ledger(req[r].clientId)[1].id > req[r].txNow

\* the four validation failures the specification lists for a POST
ListedInvalid(id, b) ==
    \/ ~(id.k = "int" /\ id.hi = 0 /\ id.lo \in 1 .. 5)
    \/ ~(b.valor.t = "int" /\ b.valor.n > 0)
    \/ ~(b.tipo.t = "str" /\ (b.tipo.s = "c" \/ b.tipo.s = "d"))
    \/ ~(b.descricao.t = "str" /\ Len(b.descricao.s) \in 1 .. 10)

\* C9: a POST that carries a body, the store not failing, is answered 422 by validation
\* exactly when one of the listed checks fails, and every other such POST reaches the
\* processor.
C9_ValidationExact ==
    \A r \in Req :
        (/\ Replied(r) /\ req[r].route \in PostRoutes
         /\ req[r].body.present /\ ~req[r].failed) =>
            /\ (req[r].status = 422 /\ ~req[r].touched) <=> ListedInvalid(req[r].id, req[r].body)
            /\ ~ListedInvalid(req[r].id, req[r].body) => req[r].touched

\* the id is no integer, or the body of a POST fails a payload check
Malformed(r) ==
    \/ req[r].id.k # "int"
    \/ req[r].route \in PostRoutes /\ ~PayloadOk(req[r].body)

\* C10: a request with a malformed id or body is answered without borrowing a
\* connection or issuing a query (requests that met a store failure set aside).
C10_MalformedUntouched ==
    \A r \in Req : (Replied(r) /\ Malformed(r) /\ ~req[r].failed) => ~req[r].touched

\* the body is absent, or lacks one of the three fields
Incomplete(b) ==
    \/ ~b.present
    \/ b.valor.t = "undef" \/ b.tipo.t = "undef" \/ b.descricao.t = "undef"

\* C11: a POST with no body, or with a body that lacks a field, is answered with a 4xx
\* status, never 500, without a query being issued.
C11_NoBodyIs4xx ==
    \A r \in Req :
        (Replied(r) /\ req[r].route \in PostRoutes /\ Incomplete(req[r].body)) =>
            /\ req[r].status \in 400 .. 499
            /\ ~req[r].touched

\* the path id is a well-formed positive integer of the valid range
WellFormedId(id) == id.k = "int" /\ id.hi = 0 /\ id.lo \in 1 .. 5

\* C12: a GET is answered 200 only for a well-formed positive integer id of the valid
\* range that names an existing account, and then with that account's statement.
C12_StatementOnlyForValidId ==
    \A r \in Req :
        (Replied(r) /\ req[r].route \in GetRoutes /\ req[r].status = 200) =>
            /\ WellFormedId(req[r].id)
            /\ Exists(req[r].id.lo)
            /\ req[r].clientId = req[r].id.lo

\* handler r runs the query that lists the rows of its statement
ListingStep(r) ==
    /\ req[r].pc \in {"seltx", "call2"}
    /\ req'[r].pc \in {"getcommit", "answered"}
    /\ ~req'[r].failed

\* the last n rows of a ledger, or all of them, as a statement shows them, newest first
NewestFirst(rows, n) ==
    LET m == IF Len(rows) < n THEN Len(rows) ELSE n
    IN  [i \in 1 .. m |-> Shown(rows[Len(rows) - i + 1])]

\* C13: for an account with n committed rows a statement lists exactly the min(n, 10)
\* most recently inserted rows of that account, newest first.
C13_ListsLastTen ==
    [][\A r \in Req :
          ListingStep(r) => req'[r].ultimas = NewestFirst(Ledger(req[r].clientId), 10)]_vars

\* C14: a statement lists the rows of an account in the reverse of their commit order:
\* of two listed rows the one committed later comes first.
C14_CommitOrderNewestFirst ==
    [][\A r \in Req :
          ListingStep(r) =>
              LET rows == Ledger(req[r].clientId)
                  list == req'[r].ultimas
              IN  \A i, j \in DOMAIN rows : i < j =>
                      \A p, q \in DOMAIN list :
                          (list[p] = Shown(rows[i]) /\ list[q] = Shown(rows[j])) => q < p]_vars

\* C20: a statement returns the balance that includes every transaction answered 200
\* before the statement's first read, and lists each of them that has fewer than 10
\* later rows.
C20_AnsweredPostIsRead ==
    [][\A r \in Req :
          ListingStep(r) =>
              LET rows == Ledger(req[r].clientId)
                  list == req'[r].ultimas
              IN  /\ req[r].balance = BalanceAt(req[r].clientId, req[r].sp)
                  /\ \A i \in 1 .. req[r].sp :
                        Len(rows) - i < 10 => \E p \in DOMAIN list : list[p] = Shown(rows[i])]_vars

\* handler q holds a connection for a POST on an account other than a
Elsewhere(q, a) ==
    /\ req[q].route \in PostRoutes
    /\ req[q].client
    /\ req[q].clientId # a

\* C15: while a request holds the row lock of account a, uncommitted, a POST on another
\* account that holds a connection can take its next step, whatever step that is, so it
\* runs on to its reply.
C15_OtherAccountNotBlocked ==
    \A r \in Req, a \in DOMAIN accounts :
        (Quiet /\ rowLock[a] = r) =>
            \A q \in Req \ {r} : Elsewhere(q, a) => ENABLED StepPost(q)

\* C15 witness: a POST on account 2 has been answered 200 while the other handler still
\* holds the row lock of account 1
C15_Witness ==
    \E r, q \in Req :
        /\ rowLock[1] = r /\ q # r
        /\ Replied(q) /\ req[q].route = "lb_post" /\ req[q].clientId = 2
        /\ req[q].status = 200
        /\ req[q].txNow > req[r].txNow

\* handler r has issued its locking read and another transaction holds the row
LockWait(r) ==
    /\ Quiet
    /\ req[r].route = "lb_post" /\ req[r].pc = "select"
    /\ Exists(req[r].clientId)
    /\ rowLock[req[r].clientId] \notin {0, r}

\* C16: a POST that waits for its account's row lock does not depend on the holder: it
\* has a step of its own to take, the overload reply 503.
C16_LockWaitEnds ==
    \A r \in Req : LockWait(r) => ENABLED StepPost(r)

\* C17: every borrowed connection is held by exactly one handler in flight, a handler
\* that has replied holds none, the pool never lends more than PG_MAX, and with no
\* request in flight nothing is borrowed.
C17_ConnectionsReturned ==
    /\ busy = Cardinality({r \in Req : req[r].client})
    /\ busy <= PG_MAX
    /\ \A r \in Req : req[r].pc \in {"idle", "connect", "answered"} => ~req[r].client
    /\ (\A r \in Req : req[r].pc \in {"idle", "answered"}) => busy = 0

\* C17 witness: a handler whose query failed after it borrowed a connection has replied
\* 500 and nothing is borrowed
C17_Witness ==
    \E r \in Req :
        /\ Replied(r) /\ req[r].failed /\ req[r].touched /\ req[r].status = 500
        /\ req[r].route \in {"lb_get", "lb_post"}
        /\ busy = 0

PostReplies(r) ==
    /\ req[r].pc # "answered"
    /\ req'[r].pc = "answered"
    /\ req'[r].route \in PostRoutes

\* C19: no step modifies or removes a ledger row; a POST answered 200 appends exactly
\* one row with the request's account id, valor, tipo and descricao; a POST answered
\* otherwise, and any step of a GET, appends none.
C19_AppendOnly ==
    [][/\ Len(transactions') >= Len(transactions)
       /\ SubSeq(transactions', 1, Len(transactions)) = transactions
       /\ \A r \in Req : PostReplies(r) =>
             IF req'[r].status = 200
             THEN /\ Len(transactions') = Len(transactions) + 1
                  /\ LET row == transactions'[Len(transactions')]
                     IN  /\ row.account_id = NumberKey(req'[r].id)
                         /\ row.amount = req'[r].body.valor.n
                         /\ row.type = req'[r].body.tipo.s
                         /\ row.description = req'[r].body.descricao.s
             ELSE transactions' = transactions
       /\ transactions' # transactions =>
             \E r \in Req : PostReplies(r) /\ req'[r].status = 200]_vars

\* C19 witness: a POST refused after another was accepted, the ledger holding one row
C19_Witness ==
    \E r \in Req :
        /\ Replied(r) /\ req[r].route \in PostRoutes /\ req[r].touched
        /\ req[r].status \in {404, 422, 500}
        /\ Len(transactions) = 1

\* a lock-based POST handler that reached the store answers in this step
LbPostReplies(r) ==
    /\ PostReplies(r)
    /\ req[r].route = "lb_post"
    /\ req[r].pc \in {"commit", "rb422"}
    /\ ~req'[r].failed

\* the rows of account a that this step adds to the ledger, without the columns the
\* store fills in by itself (id, created_at)
AddedRows(a) ==
    LET old == Len(RowsOf(transactions, a))
        new == RowsOf(transactions', a)
    IN  [i \in 1 .. (Len(new) - old) |->
            [account_id |-> new[old + i].account_id, amount |-> new[old + i].amount,
             type |-> new[old + i].type, description |-> new[old + i].description]]

\* C21: the lock-based processor and process_transaction are equivalent on existing
\* accounts: whenever a lock-based POST answers, in any interleaving of valid credits
\* and debits, its status, saldo and limite, the balance it leaves and the ledger row
\* it adds are those the single conditional UPDATE of process_transaction gives on
\* the same committed store
C21_SameAsConditionalUpdate ==
    [][\A r \in Req : LbPostReplies(r) =>
          LET a == req[r].clientId
              tipo == ReqTipo(r)
              valor == ReqValor(r)
          IN  IF SfQual(a, tipo, valor)
              THEN /\ req'[r].status = 200
                   /\ req'[r].saldo = SfNewBalance(a, tipo, valor)
                   /\ req'[r].limite = accounts[a].account_limit
                   /\ accounts' = [accounts EXCEPT ![a].balance = SfNewBalance(a, tipo, valor)]
                   /\ AddedRows(a) = <<[account_id |-> a, amount |-> valor, type |-> tipo,
                                        description |-> req[r].body.descricao.s]>>
                   /\ Len(transactions') = Len(transactions) + 1
              ELSE /\ req'[r].status = 422
                   /\ accounts' = accounts
                   /\ transactions' = transactions]_vars

\* a lock-based debit was accepted after an earlier movement on the same account
C21_Witness ==
    /\ revision = "lb"
    /\ \E r \in Req : /\ Processed(r) /\ req[r].status = 200 /\ ReqTipo(r) = "d"
                       /\ req[r].sp > 0

\* C22: in the GET handler that wraps its reads in BEGIN ... COMMIT the balance and
\* the list are one consistent read: no POST commits on the account between the
\* account read and the ledger read, so the ledger the second SELECT sees is the one
\* that was committed when the first SELECT ran
C22_NoCommitBetweenReads ==
    [][\A r \in Req :
          (ListingStep(r) /\ req[r].route = "lb_get")
              => /\ Len(Ledger(req[r].clientId)) = req[r].sp
                 /\ accounts[req[r].clientId].balance = req[r].balance]_vars

\* C23: the server listens only after the index, get_extrato and process_transaction
\* have been created and the setup connection has been released; when connecting or
\* a setup statement fails the process has exited with code 1 and is not listening,
\* and no request is handled by a process that is not listening
C23_ListensAfterSetup ==
    /\ (boot.listening /\ revision = "sf")
          => /\ boot.index /\ boot.get_extrato /\ boot.process_transaction
             /\ ~boot.client
    /\ boot.failed => (boot.pc = "exited" /\ boot.code = 1 /\ ~boot.listening)
    /\ (\E r \in Req : req[r].pc # "idle") => (boot.listening /\ ~boot.failed)

\* the stored-function server went through its setup and has answered a request
C23_Witness ==
    /\ revision = "sf"
    /\ boot.listening
    /\ faults = 0
    /\ \E r \in Req : Replied(r) /\ req[r].status = 200

\* C24: a POST answered 200 for account A changes A's balance by exactly +valor for a
\* credit and -valor for a debit and changes nothing else among the accounts: no other
\* balance, no limit, no account created or deleted; no other step changes the
\* accounts, and a step of a GET handler changes neither the accounts nor the ledger
C24_OnlyOwnBalanceMoves ==
    [][/\ DOMAIN accounts' = DOMAIN accounts
       /\ \A a \in DOMAIN accounts : accounts'[a].account_limit = accounts[a].account_limit
       /\ \A r \in Req :
             (PostReplies(r) /\ req'[r].status = 200)
                 => /\ Exists(req[r].clientId)
                    /\ accounts' = [accounts EXCEPT ![req[r].clientId].balance = @ + ReqDelta(r)]
       /\ (accounts' # accounts)
             => \E r \in Req : PostReplies(r) /\ req'[r].status = 200
       /\ \A r \in Req :
             (req'[r] # req[r] /\ (req[r].route \in GetRoutes \/ req'[r].route \in GetRoutes))
                 => (accounts' = accounts /\ transactions' = transactions)]_vars

\* a POST on account 1 was answered 200 while account 2 holds a balance of its own
C24_Witness ==
    /\ accounts[2].balance # 0
    /\ accounts[1].balance # accounts[2].balance
    /\ \E r \in Req : Processed(r) /\ req[r].status = 200 /\ req[r].clientId = 1

\* C25: a debit that brings the balance exactly to -limit is accepted (200 with
\* saldo = -limite); a debit that would bring it to -limit - 1 is refused (422); both
\* revisions decide the boundary the same way
C25_BoundaryInclusive ==
    \A r \in Req :
        (Processed(r) /\ ReqTipo(r) = "d")
            => LET a == req[r].clientId
                   lim == accounts[a].account_limit
                   after == BalanceAt(a, req[r].sp) - ReqValor(r)
               IN  /\ (after = 0 - lim)
                         => (req[r].status = 200 /\ req[r].saldo = 0 - lim /\ req[r].limite = lim)
                   /\ (after = 0 - lim - 1) => req[r].status = 422

\* a debit on an account with a positive limit was accepted at exactly -limit
C25_Witness ==
    \E r \in Req : /\ Processed(r) /\ ReqTipo(r) = "d" /\ req[r].status = 200
                    /\ req[r].limite > 0 /\ req[r].saldo = 0 - req[r].limite

\* C26: a valid credit on an existing account is never refused for the limit,
\* whatever the balance and the limit are: unless the store fails it is answered 200
C26_CreditAlwaysAccepted ==
    \A r \in Req : (Processed(r) /\ ReqTipo(r) = "c") => req[r].status = 200

\* a credit was accepted on the account without credit limit while its balance was 0
C26_Witness ==
    \E r \in Req : /\ Processed(r) /\ ReqTipo(r) = "c" /\ req[r].status = 200
                    /\ req[r].limite = 0 /\ req[r].saldo = ReqValor(r)

\* n is not a 32-bit integer of the store
Beyond(n) == n > INT_MAX \/ n < 0 - INT_MAX - 1

\* C27: a POST that passes validation with a valor beyond the store's INT, or a
\* credit that would push the balance beyond it, is not applied with a wrapped-around
\* value: the step that answers it leaves balances and ledger unchanged and answers
\* with an error status; no balance and no amount in the store is ever beyond INT
C27_OverflowNotApplied ==
    [][/\ \A r \in Req :
             LET a == req'[r].clientId
                 valor == req'[r].body.valor.n
             IN  (/\ PostReplies(r)
                  /\ \/ Beyond(valor)
                     \/ /\ Exists(a)
                        /\ req'[r].body.tipo.s = "c"
                        /\ Beyond(accounts[a].balance + valor))
                     => /\ req'[r].status \in {404, 422, 500}
                        /\ accounts' = accounts
                        /\ transactions' = transactions
       /\ \A a \in DOMAIN accounts' : ~Beyond(accounts'[a].balance)
       /\ \A i \in DOMAIN transactions' : ~Beyond(transactions'[i].amount)]_vars

\* with no failure of the store injected, a credit of 1 on a balance of INT_MAX was
\* answered 500
C27_Witness ==
    /\ faults = 0
    /\ \E r \in Req : /\ Replied(r) /\ req[r].status = 500
                       /\ ReqTipo(r) = "c" /\ ReqValor(r) = 1
                       /\ Exists(req[r].clientId)
                       /\ accounts[req[r].clientId].balance = INT_MAX

\* the balance a GET handler has read, once it has read one
HasReadBalance(r) ==
    /\ req[r].route \in GetRoutes
    /\ \/ req[r].pc \in {"seltx", "getcommit", "call2"}
       \/ Replied(r) /\ req[r].status = 200

ReadBalance(r) == IF Replied(r) THEN req[r].saldo ELSE req[r].balance

\* C28: a statement never shows uncommitted work: the balance a GET has read is one
\* the account held in a committed state (the sum of a prefix of its committed ledger)
\* and every entry it lists is a row of the committed ledger, so nothing written by a
\* POST that is rolled back (answered 404, 422 or 500) is ever shown
C28_ReadsCommittedOnly ==
    \A r \in Req :
        HasReadBalance(r)
            => LET rows == Ledger(req[r].clientId)
               IN  /\ \E k \in 0 .. Len(rows) : ReadBalance(r) = SumSigned(SubSeq(rows, 1, k))
                   /\ \A i \in DOMAIN req[r].ultimas :
                         \E j \in DOMAIN rows : Shown(rows[j]) = req[r].ultimas[i]

\* a statement of an account was answered while a POST on that account holds an
\* UPDATE it has not committed, with a balance the statement does not show
C28_Witness ==
    \E r, q \in Req :
        /\ Replied(r) /\ req[r].route \in GetRoutes /\ req[r].status = 200
        /\ req[q].route \in PostRoutes /\ req[q].wBal.has
        /\ req[q].clientId = req[r].clientId
        /\ req[q].wBal.v # req[r].saldo

\* the awaits of the lock-based handlers at which COMMIT or ROLLBACK is the statement
\* in flight
EndTxPcs == {"commit", "getcommit", "rb404", "rb422", "catch"}

\* the step in which lock-based handler r gives its connection back to the pool
LbReleases(r) ==
    /\ req[r].route \in {"lb_get", "lb_post"}
    /\ req[r].client
    /\ ~req'[r].client

\* C29: a lock-based handler never returns its connection to the pool with its
\* transaction open or a row lock held: the step that releases the connection is the
\* one that follows its COMMIT or ROLLBACK, after it no row is locked by the handler,
\* and a handler without a connection holds no lock and no pending write
C29_ReleasedAfterEndOfTransaction ==
    [][\A r \in Req :
          /\ LbReleases(r)
                => /\ req[r].inTx => req[r].pc \in EndTxPcs
                   /\ ~req'[r].inTx
                   /\ \A a \in DOMAIN rowLock' : rowLock'[a] # r
                   /\ busy' = busy - 1
          /\ ~req'[r].client
                => /\ \A a \in DOMAIN rowLock' : rowLock'[a] # r
                   /\ ~req'[r].wBal.has /\ req'[r].wIns = <<>>]_vars

\* a lock-based debit that held the row lock was refused for the limit, and every
\* connection is back and no row is locked
C29_Witness ==
    /\ revision = "lb"
    /\ busy = 0
    /\ \A a \in DOMAIN rowLock : rowLock[a] = 0
    /\ \E r \in Req : /\ Replied(r) /\ req[r].route = "lb_post" /\ req[r].status = 422
                       /\ req[r].touched /\ ~req[r].failed

\* C30: there is no deadlock between the connection pool and the row locks: with more
\* requests in flight than the pool has connections, a store that answers every query
\* and fair scheduling, every request that came in is eventually answered
C30_EveryRequestAnswered ==
    \A r \in HandlersLive : (req[r].pc \notin {"idle", "answered"}) ~> (req[r].pc = "answered")

\* one handler holds the row lock of an account, a second waits for that lock on the
\* other connection of the pool, and a third waits for a connection
C30_Witness ==
    \E r, q, w \in Req :
        /\ \E a \in DOMAIN rowLock : rowLock[a] = r /\ LockWait(q) /\ req[q].clientId = a
        /\ req[w].pc = "connect"
        /\ busy = PG_MAX

====
